---- MODULE Spec2Model ----
(***************************************************************************)
(* The evolutionary search of evolium.py: evolve() and the functions it    *)
(* calls (__createPopulation, __scorePopulation, __score, __best,          *)
(* __selectPopulation, __potentialChildren, __breedPopulation, __mutate).  *)
(*                                                                         *)
(* Numbers.  Python floats are modelled exactly on a grid: every float     *)
(* input (tournamentSize, goldenSize, immigrationSize, mutProb, the data's *)
(* x and y, and each value drawn from random.random()) is a multiple of    *)
(* 1/Den and is stored as its numerator.  With Den a power of two all the  *)
(* products and differences the code forms are exact in binary floating    *)
(* point, so the integer arithmetic below is the float arithmetic.  m, c   *)
(* and mutVal are whole numbers (dps = 0: round(v, 0) yields whole floats).*)
(***************************************************************************)
EXTENDS Integers, Sequences, FiniteSets, TLC

Den == 4
MaxPop == 4
MaxCycles == 2

VARIABLES
    hyperParams,      \* the HyperParams tuple passed to evolve
    data,             \* the list of DataPoints passed to evolve
    pc,               \* position in evolve
    i,                \* the loop index of evolve
    basePopulation,   \* evolve's basePopulation
    fitPopulation,    \* evolve's fitPopulation
    bestPopulation,   \* evolve's bestPopulation
    outcome,          \* "running", "returned", or the exception evolve ended with
    raisedAt,         \* the call that raised, "" when none
    result,           \* the (best, cyclesUsed) pair evolve returned
    scoreRounds,      \* number of __scorePopulation calls made by evolve so far
    pool,             \* __breedPopulation's pool, last call
    children,         \* __breedPopulation's children, last call
    mutatedChildren,  \* __breedPopulation's mutatedChildren, last call
    counter,          \* __mutate's counter, last call
    immigrants,       \* __breedPopulation's immigrants, last call
    elite,            \* the population argument of the last __breedPopulation call
    madeBy            \* for each member of basePopulation, the function that built the object

vars == <<hyperParams, data, pc, i, basePopulation, fitPopulation, bestPopulation,
          outcome, raisedAt, result, scoreRounds, pool, children, mutatedChildren,
          counter, immigrants, elite, madeBy>>

(***************************************************************************)
(* Values                                                                  *)
(***************************************************************************)
\* Python's None for a Formula's fitness; a set fitness v is {v}.
None == {}

Some(v) == {v}

Val(f) == CHOOSE v \in f : TRUE

Formula(m, c, fitness) == [m |-> m, c |-> c, fitness |-> fitness]

DataPoint(x, y) == [x |-> x, y |-> y]

MCRange(minM, maxM, minC, maxC) == [minM |-> minM, maxM |-> maxM, minC |-> minC, maxC |-> maxC]

Abs(n) == IF n < 0 THEN -n ELSE n

\* round(n/d, 0) for d > 0: nearest whole number, a tie goes to the even one.
PyRound(n, d) ==
    LET q == n \div d
        r == n % d
    IN  IF 2 * r < d THEN q
        ELSE IF 2 * r > d THEN q + 1
        ELSE IF q % 2 = 0 THEN q ELSE q + 1

\* int(n/d) for d > 0: truncation toward zero.
PyInt(n, d) == IF n >= 0 THEN n \div d ELSE -((-n) \div d)

\* The sequences of k distinct positions of 1..n: the orders random.sample can return.
Arrangements(n, k) ==
    {p \in [1..k -> 1..n] : \A a, b \in 1..k : a # b => p[a] # p[b]}

(***************************************************************************)
(* The inputs                                                              *)
(***************************************************************************)
TheRange == MCRange(0, 1, 0, 0)

MutProbs == {1, Den}

MutVals == {5}

\* The fractions of the population: 1/Den, about a half, and 1.
Fractions == {1, Den \div 2, Den}

\* For Den = 4: no data; the points (0, 0) and (1.5, 1.5), which (m, c) = (1, 0) fits
\* exactly; the point (0.5, 1.5), whose residuals are ties of the rounding and which
\* only a bred (m, c) = (0, 1) or (1, 1) fits.
DataSets ==
    { << >>,
      << DataPoint(0, 0), DataPoint(Den + (Den \div 2), Den + (Den \div 2)) >>,
      << DataPoint(Den \div 2, Den + (Den \div 2)) >> }

HyperParamSets ==
    [ cycles : 1..MaxCycles, mcrange : {TheRange}, popSize : 1..MaxPop,
      mutProb : MutProbs, mutVal : MutVals, dps : {0},
      tournamentSize : Fractions, goldenSize : Fractions, immigrationSize : Fractions ]

(***************************************************************************)
(* __createPopulation: the lists it can return.  round(uniform(lo, hi), 0) *)
(* is any whole number of lo..hi; range(popSize) is empty for popSize <= 0.*)
(***************************************************************************)
\* Variant of CreatePopulation: range(popSize - 1), one member short.
CreatePopulationShort(mcrange, dps, popSize) ==
    LET n == IF popSize < 1 THEN 0 ELSE popSize - 1
    IN  [1..n -> {Formula(m, c, None) : m \in mcrange.minM..mcrange.maxM,
                                        c \in mcrange.minC..mcrange.maxC}]

CreatePopulation(mcrange, dps, popSize) ==
    LET n == IF popSize < 0 THEN 0 ELSE popSize
    IN  [1..n -> {Formula(m, c, None) : m \in mcrange.minM..mcrange.maxM,
                                        c \in mcrange.minC..mcrange.maxC}]

(***************************************************************************)
(* __best: sorted() is stable, so [0] is the first member of least fitness.*)
(***************************************************************************)
Best(population) ==
    LET j == CHOOSE a \in 1..Len(population) :
                 \A b \in 1..Len(population) :
                     /\ Val(population[a].fitness) <= Val(population[b].fitness)
                     /\ b < a => Val(population[b].fitness) > Val(population[a].fitness)
    IN  population[j]

(***************************************************************************)
(* __score: sum of abs(round(y - (m*x + c), dps)) over the data, dps = 0.  *)
(* The function reads dps from the module-level hyperParams, which the     *)
(* script binds to the tuple it passes to evolve.                          *)
(***************************************************************************)
RECURSIVE SumResiduals(_, _, _)
SumResiduals(candidate, points, n) ==
    IF n = 0 THEN 0
    ELSE SumResiduals(candidate, points, n - 1)
         + Abs(PyRound(points[n].y - ((candidate.m * points[n].x) + candidate.c * Den), Den))

Score(candidate, points) == SumResiduals(candidate, points, Len(points))

\* `candidate.fitness or ...`: None and 0 are both falsy.
Truthy(fitness) == fitness # None /\ fitness # Some(0)

ScorePopulation(population, points) ==
    [j \in 1..Len(population) |->
        Formula(population[j].m, population[j].c,
                IF Truthy(population[j].fitness) THEN population[j].fitness
                ELSE Some(Score(population[j], points)))]

(***************************************************************************)
(* __selectPopulation: round(popSize*goldenSize) tournaments, each the     *)
(* __best of random.sample(population, round(popSize*tournamentSize)).     *)
(***************************************************************************)
TournamentSize(hp) == PyRound(hp.popSize * hp.tournamentSize, Den)

GoldenSize(hp) == PyRound(hp.popSize * hp.goldenSize, Den)

\* The lists random.sample(population, k) can return, 0 <= k <= len(population).
Sample(population, k) ==
    {[j \in 1..k |-> population[p[j]]] : p \in Arrangements(Len(population), k)}

\* The exception one tournament raises, "" when it raises none: random.sample
\* rejects k > len(population), and __best of an empty sample indexes [0] of [].
TournamentError(population, k) ==
    IF k > Len(population) THEN "ValueError"
    ELSE IF k = 0 THEN "IndexError"
    ELSE ""

Tournament(population, k) == {Best(s) : s \in Sample(population, k)}

\* range(round(popSize*goldenSize)) is empty for 0: no tournament is run then.
SelectPopulation(population, hp) ==
    IF GoldenSize(hp) = 0 THEN {<< >>}
    ELSE [1..GoldenSize(hp) -> Tournament(population, TournamentSize(hp))]

(***************************************************************************)
(* __potentialChildren: the set of the (m, c) products and of their swaps. *)
(***************************************************************************)
\* Variant of PotentialChildren: a child keeps the fitness of the parent that gave m.
PotentialChildrenScored(population) ==
    LET idx == 1..Len(population)
    IN  {Formula(population[a].m, population[b].c, population[a].fitness) : a, b \in idx}
        \cup {Formula(population[b].c, population[a].m, population[a].fitness) : a, b \in idx}

PotentialChildren(population) ==
    LET ms == {population[j].m : j \in 1..Len(population)}
        cs == {population[j].c : j \in 1..Len(population)}
        product == ms \X cs
        potentials == {<<cand[2], cand[1]>> : cand \in product} \cup product
    IN  {Formula(pot[1], pot[2], None) : pot \in potentials}

(***************************************************************************)
(* __mutate.  A draw holds the three values of random.random() one child   *)
(* consumes, as numerators over Den: p against mutProb, d for the          *)
(* direction, s for the choice between m and c.                            *)
(***************************************************************************)
\* The values random.random() takes here: the ends of [0, 1) on the grid.
RandomValues == {0, Den - 1}

Draws ==
    [p : RandomValues, d : RandomValues, s : RandomValues]

\* round(random.random() - 0.5, 0)
Direction(d) == PyRound((2 * d) - Den, 2 * Den)

Mutates(draw, hp) == draw.p < hp.mutProb

MutateChild(child, draw, hp) ==
    IF Mutates(draw, hp)
    THEN IF 2 * draw.s < Den
         THEN Formula(child.m + (hp.mutVal * Direction(draw.d)), child.c, None)
         ELSE Formula(child.m, child.c + (hp.mutVal * Direction(draw.d)), None)
    ELSE Formula(child.m, child.c, None)

Mutate(kids, draws, hp) ==
    {MutateChild(kids[j], draws[j], hp) : j \in 1..Len(kids)}

MutateCounter(kids, draws, hp) ==
    Cardinality({j \in 1..Len(kids) : Mutates(draws[j], hp)})

\* The draws a call of __mutate can consume: the second and third values are
\* drawn only for a child that mutates.
DrawsFor(kids, hp) ==
    {ds \in [1..Len(kids) -> Draws] :
        \A j \in 1..Len(kids) : ~Mutates(ds[j], hp) => ds[j].d = 0 /\ ds[j].s = 0}

(***************************************************************************)
(* __breedPopulation                                                       *)
(***************************************************************************)
\* int(min(len(pool), popSize*(1-immigrationSize) - len(population)))
ChildCount(poolSize, eliteSize, hp) ==
    LET quota == (hp.popSize * (Den - hp.immigrationSize)) - (eliteSize * Den)
    IN  IF poolSize * Den <= quota THEN poolSize ELSE PyInt(quota, Den)

\* The lists random.sample(pool, n) can return, 0 <= n <= len(pool).
SampleChildren(pl, n) ==
    {s \in [1..n -> pl] : \A a, b \in 1..n : a # b => s[a] # s[b]}

Immigrants(hp, childCount, eliteSize) == hp.popSize - (childCount + eliteSize)

\* The list `population += list(children) + __createPopulation(...)` leaves.
NewGeneration(population, kids, mutated, newcomers) == population \o kids \o newcomers

\* Every Formula object is built by one call: line 48 (__createPopulation), line 56
\* (__scorePopulation), line 73 (__potentialChildren) or line 122 (__mutate).
Makers(population, maker) == [j \in 1..Len(population) |-> maker]

\* The builders of the objects of NewGeneration: the population argument holds
\* tournament winners, which are objects of the scored population; `children` holds
\* objects of the pool; the objects built by __mutate are in `mutated` only.
GenerationMakers(population, kids, mutated, newcomers) ==
    Makers(population, "__scorePopulation")
        \o Makers(kids, "__potentialChildren")
        \o Makers(newcomers, "__createPopulation")

SizeError(population, hp) == Len(population) # hp.popSize

(***************************************************************************)
(* evolve                                                                  *)
(***************************************************************************)
NoResult == [best |-> Formula(0, 0, None), cyclesUsed |-> 0]

\* `if best.fitness == 0`
Converged(best) == Val(best.fitness) = 0

\* Variant of CyclesUsed: `return (best, i)`.
CyclesUsedIndex(index) == index

\* the cycle count of `return (best, i+1)`
CyclesUsed(index) == index + 1

\* `if i+1 < hyperParams.cycles`
BreedsAgain(index, hp) == index + 1 < hp.cycles

Init ==
    /\ hyperParams \in HyperParamSets
    /\ data \in DataSets
    /\ pc = "create"
    /\ i = 0
    /\ basePopulation = << >>
    /\ fitPopulation = << >>
    /\ bestPopulation = << >>
    /\ outcome = "running"
    /\ raisedAt = ""
    /\ result = NoResult
    /\ scoreRounds = 0
    /\ pool = {}
    /\ children = << >>
    /\ mutatedChildren = {}
    /\ counter = 0
    /\ immigrants = 0
    /\ elite = << >>
    /\ madeBy = << >>

Raise(exception, where) ==
    /\ outcome' = exception
    /\ raisedAt' = where
    /\ pc' = "done"

Return(best, cycles) ==
    /\ outcome' = "returned"
    /\ result' = [best |-> best, cyclesUsed |-> cycles]
    /\ pc' = "done"

\* line 137, and the entry of the for loop
Create ==
    /\ pc = "create"
    /\ basePopulation' \in CreatePopulation(hyperParams.mcrange, hyperParams.dps,
                                            hyperParams.popSize)
    /\ madeBy' = Makers(basePopulation', "__createPopulation")
    /\ pc' = IF 0 < hyperParams.cycles THEN "score" ELSE "exit"
    /\ UNCHANGED <<hyperParams, data, i, fitPopulation, bestPopulation, outcome, raisedAt,
                   result, scoreRounds, pool, children, mutatedChildren, counter,
                   immigrants, elite>>

\* lines 142-149: score the generation, take its best, return it when it fits exactly
ScoreGeneration ==
    /\ pc = "score"
    /\ LET fit == ScorePopulation(basePopulation, data)
       IN  /\ fitPopulation' = fit
           /\ scoreRounds' = scoreRounds + 1
           /\ IF Len(fit) = 0
              THEN Raise("IndexError", "__best") /\ UNCHANGED result
              ELSE IF Converged(Best(fit))
              THEN Return(Best(fit), CyclesUsed(i)) /\ UNCHANGED raisedAt
              ELSE pc' = "select" /\ UNCHANGED <<outcome, raisedAt, result>>
    /\ UNCHANGED <<hyperParams, data, i, basePopulation, bestPopulation, pool, children,
                   mutatedChildren, counter, immigrants, elite, madeBy>>

\* line 150
Select ==
    /\ pc = "select"
    /\ LET k == TournamentSize(hyperParams)
           failure == TournamentError(fitPopulation, k)
       IN  IF GoldenSize(hyperParams) > 0 /\ failure # ""
           THEN /\ Raise(failure, "__selectPopulation")
                /\ UNCHANGED bestPopulation
           ELSE /\ bestPopulation' \in SelectPopulation(fitPopulation, hyperParams)
                /\ pc' = "replace"
                /\ UNCHANGED <<outcome, raisedAt>>
    /\ UNCHANGED <<hyperParams, data, i, basePopulation, fitPopulation, result, scoreRounds,
                   pool, children, mutatedChildren, counter, immigrants, elite, madeBy>>

\* lines 153-154 with the whole of __breedPopulation (lines 75-100)
Breed ==
    /\ pc = "replace"
    /\ BreedsAgain(i, hyperParams)
    /\ LET pl == PotentialChildren(bestPopulation)
           n  == ChildCount(Cardinality(pl), Len(bestPopulation), hyperParams)
       IN  /\ elite' = bestPopulation
           /\ pool' = pl
           /\ IF n < 0
              THEN \* random.sample(pool, n) rejects a negative n
                   /\ Raise("ValueError", "random.sample")
                   /\ UNCHANGED <<i, basePopulation, bestPopulation, children,
                                  mutatedChildren, counter, immigrants, madeBy>>
              ELSE \E kids \in SampleChildren(pl, n) :
                   \E draws \in DrawsFor(kids, hyperParams) :
                   \E newcomers \in CreatePopulation(hyperParams.mcrange, hyperParams.dps,
                                        Immigrants(hyperParams, Len(kids), Len(bestPopulation))) :
                   LET mutated == Mutate(kids, draws, hyperParams)
                       population == NewGeneration(bestPopulation, kids, mutated, newcomers)
                   IN  /\ children' = kids
                       /\ mutatedChildren' = mutated
                       /\ counter' = MutateCounter(kids, draws, hyperParams)
                       /\ immigrants' = Immigrants(hyperParams, Len(kids), Len(bestPopulation))
                       /\ bestPopulation' = population
                       /\ IF SizeError(population, hyperParams)
                          THEN /\ Raise("ValueError", "__breedPopulation")
                               /\ UNCHANGED <<i, basePopulation, madeBy>>
                          ELSE /\ basePopulation' = population
                               /\ madeBy' = GenerationMakers(bestPopulation, kids, mutated,
                                                              newcomers)
                               /\ i' = i + 1
                               /\ pc' = "score"
                               /\ UNCHANGED <<outcome, raisedAt>>
    /\ UNCHANGED <<hyperParams, data, fitPopulation, result, scoreRounds>>

\* lines 155-156: the last cycle keeps the selected population and leaves the loop
KeepSelected ==
    /\ pc = "replace"
    /\ ~BreedsAgain(i, hyperParams)
    /\ basePopulation' = bestPopulation
    /\ madeBy' = Makers(bestPopulation, "__scorePopulation")
    /\ i' = i + 1
    /\ pc' = IF i + 1 < hyperParams.cycles THEN "score" ELSE "exit"
    /\ UNCHANGED <<hyperParams, data, fitPopulation, bestPopulation, outcome, raisedAt,
                   result, scoreRounds, pool, children, mutatedChildren, counter,
                   immigrants, elite>>

\* line 157
Exhausted ==
    /\ pc = "exit"
    /\ IF Len(basePopulation) = 0
       THEN Raise("IndexError", "__best") /\ UNCHANGED result
       ELSE Return(Best(basePopulation), hyperParams.cycles) /\ UNCHANGED raisedAt
    /\ UNCHANGED <<hyperParams, data, i, basePopulation, fitPopulation, bestPopulation,
                   scoreRounds, pool, children, mutatedChildren, counter, immigrants, elite,
                   madeBy>>

Next == Create \/ ScoreGeneration \/ Select \/ Breed \/ KeepSelected \/ Exhausted

Spec == Init /\ [][Next]_vars

(***************************************************************************)
(* __potentialChildren on its own: the elite is any list of one or two     *)
(* scored candidates with m and c in 1..MaxCoord.                          *)
(***************************************************************************)
MaxCoord == 4

Elites ==
    LET cands == {Formula(m, c, Some(1)) : m \in 1..MaxCoord, c \in 1..MaxCoord}
    IN  [1..1 -> cands] \cup [1..2 -> cands]

InitPool ==
    /\ hyperParams \in {hp \in HyperParamSets : hp.cycles = 1 /\ hp.popSize = 1
                           /\ hp.mutProb = Den /\ hp.tournamentSize = Den
                           /\ hp.goldenSize = Den /\ hp.immigrationSize = Den}
    /\ data = << >>
    /\ pc = "pool"
    /\ i = 0
    /\ basePopulation = << >>
    /\ fitPopulation = << >>
    /\ bestPopulation \in Elites
    /\ outcome = "running"
    /\ raisedAt = ""
    /\ result = NoResult
    /\ scoreRounds = 0
    /\ pool = {}
    /\ children = << >>
    /\ mutatedChildren = {}
    /\ counter = 0
    /\ immigrants = 0
    /\ elite = << >>
    /\ madeBy = << >>

\* line 76: pool = __potentialChildren(population)
BuildPool ==
    /\ pc = "pool"
    /\ pool' = PotentialChildren(bestPopulation)
    /\ elite' = bestPopulation
    /\ pc' = "pooled"
    /\ UNCHANGED <<hyperParams, data, i, basePopulation, fitPopulation, bestPopulation,
                   outcome, raisedAt, result, scoreRounds, children, mutatedChildren,
                   counter, immigrants, madeBy>>

NextPool == BuildPool

SpecPool == InitPool /\ [][NextPool]_vars

(***************************************************************************)
(* Properties                                                              *)
(***************************************************************************)
\* __breedPopulation has returned: only then does the loop come back to scoring.
BreederReturned == pc = "score" /\ i >= 1

\* __breedPopulation was called and got as far as this call's pool.
BreederCalled == BreederReturned \/ raisedAt \in {"random.sample", "__breedPopulation"}

\* evolve returned from inside the loop (line 149) / after it (line 157).
ReturnedConverged == outcome = "returned" /\ i < hyperParams.cycles

ReturnedExhausted == outcome = "returned" /\ i = hyperParams.cycles

\* fitPopulation is the scoring of the current basePopulation.
JustScored == pc = "select" \/ ReturnedConverged

HasFitnessZero(population) ==
    \E j \in 1..Len(population) : population[j].fitness = Some(0)

\* C1: every population the breeder returns has exactly popSize members (elite +
\* children + immigrants = popSize), the breeder raises exactly when the sizes do not
\* add up, and every population scored by evolve, the initial one and each bred one,
\* has exactly popSize members.
PopulationSizeInvariant ==
    /\ BreederReturned =>
          /\ Len(basePopulation) = hyperParams.popSize
          /\ Len(elite) + Len(children) + immigrants = hyperParams.popSize
          /\ immigrants >= 0
    /\ raisedAt = "__breedPopulation" => Len(bestPopulation) # hyperParams.popSize
    /\ pc = "score" => Len(basePopulation) = hyperParams.popSize
    /\ scoreRounds > 0 => Len(fitPopulation) = hyperParams.popSize

BredGenerationScored ==
    /\ pc = "select" /\ i >= 1
    /\ Len(children) >= 1 /\ immigrants >= 1 /\ Len(elite) >= 1
    /\ Len(fitPopulation) = hyperParams.popSize

\* C2: when evolve returns after exhausting the cycle budget, the fitness of the
\* returned candidate is at most the fitness of every candidate of the last scored
\* population.
BestOfFinalGeneration ==
    ReturnedExhausted =>
        \A j \in 1..Len(fitPopulation) :
            Val(result.best.fitness) <= Val(fitPopulation[j].fitness)

\* C3: evolve scores at most `cycles` generations; a generation whose scored
\* population holds a candidate of fitness 0 is returned from at once, as (that
\* candidate, i+1), with no selection or breeding; otherwise evolve returns after
\* exactly `cycles` scoring rounds with cyclesUsed = cycles.  cyclesUsed is in
\* 1..cycles, and cyclesUsed < cycles implies the returned fitness is 0.
CycleBudget ==
    /\ scoreRounds <= hyperParams.cycles
    /\ pc \in {"select", "replace", "exit"} => ~HasFitnessZero(fitPopulation)
    /\ pc \in {"score", "select", "replace"} => i < hyperParams.cycles
    /\ ReturnedConverged =>
          /\ result.cyclesUsed = i + 1
          /\ scoreRounds = i + 1
          /\ result.best.fitness = Some(0)
          /\ \E j \in 1..Len(fitPopulation) : fitPopulation[j] = result.best
    /\ ReturnedExhausted =>
          /\ result.cyclesUsed = hyperParams.cycles
          /\ scoreRounds = hyperParams.cycles
    /\ outcome = "returned" =>
          /\ result.cyclesUsed \in 1..hyperParams.cycles
          /\ result.cyclesUsed < hyperParams.cycles => result.best.fitness = Some(0)

ConvergedInSecondGeneration ==
    /\ ReturnedConverged
    /\ i = 1 /\ result.cyclesUsed = 2
    /\ Len(data) > 0
    /\ Len(children) >= 1

\* C4: evolve on an empty dataset ends in an input error and never returns a
\* candidate as converged.
EmptyDatasetRejected ==
    Len(data) = 0 =>
        /\ outcome # "returned"
        /\ pc = "done" => outcome = "InputError"

\* C5: the pool of __potentialChildren is exactly the cross product of the elite's
\* m-values with the elite's c-values, each pair once.
PoolIsCrossProduct ==
    (pc = "pooled" \/ BreederCalled) =>
        pool = {Formula(elite[a].m, elite[b].c, None) : a, b \in 1..Len(elite)}

\* C6: with mutProb = 1.0 and mutVal = 5 every child has an output of __mutate that
\* differs from it in exactly one of m and c, by exactly 5 up or down.
MutationMagnitude ==
    (BreederReturned /\ hyperParams.mutProb = Den /\ hyperParams.mutVal = 5) =>
        \A j \in 1..Len(children) :
            \E out \in mutatedChildren :
                \/ Abs(out.m - children[j].m) = 5 /\ out.c = children[j].c
                \/ out.m = children[j].m /\ Abs(out.c - children[j].c) = 5

\* C7: the generation the breeder returns is the elite, then the mutated children,
\* then the immigrants: every member between the elite and the immigrants is an
\* element of the output of __mutate for the sampled children, built by __mutate.
MutatedChildrenInGeneration ==
    BreederReturned =>
        /\ Len(basePopulation) = Len(elite) + Len(children) + immigrants
        /\ SubSeq(basePopulation, 1, Len(elite)) = elite
        /\ \A j \in (Len(elite) + 1)..(Len(elite) + Len(children)) :
              /\ basePopulation[j] \in mutatedChildren
              /\ madeBy[j] = "__mutate"
        /\ \A j \in (Len(elite) + Len(children) + 1)..Len(basePopulation) :
              /\ basePopulation[j].fitness = None
              /\ madeBy[j] = "__createPopulation"

\* C8: when the elite exceeds the non-immigrant quota popSize*(1-immigrationSize),
\* the breeder samples no children and goes on; it does not fail at the sampling.
ChildCountClamped ==
    (BreederCalled /\ hyperParams.popSize * (Den - hyperParams.immigrationSize) < Len(elite) * Den) =>
        /\ raisedAt # "random.sample"
        /\ children = << >>

\* C9: the selector never raises, and returns round(popSize*goldenSize) members of
\* the scored population, also when popSize*tournamentSize rounds to 0.
SelectorClampsSample ==
    /\ raisedAt # "__selectPopulation"
    /\ pc = "replace" =>
          /\ Len(bestPopulation) = GoldenSize(hyperParams)
          /\ \A j \in 1..Len(bestPopulation) :
                \E k \in 1..Len(fitPopulation) : bestPopulation[j] = fitPopulation[k]

\* C10: scoring keeps the size and every (m, c), keeps the fitness of a candidate
\* that has one, and every candidate of every scored population has a fitness that
\* is set, is >= 0 and is the sum over the data of |round(y - (m*x + c), dps)|.
FitnessConsistency ==
    /\ JustScored =>
          /\ Len(fitPopulation) = Len(basePopulation)
          /\ \A j \in 1..Len(fitPopulation) :
                /\ fitPopulation[j].m = basePopulation[j].m
                /\ fitPopulation[j].c = basePopulation[j].c
                /\ basePopulation[j].fitness # None =>
                       fitPopulation[j].fitness = basePopulation[j].fitness
    /\ \A j \in 1..Len(fitPopulation) :
          /\ fitPopulation[j].fitness # None
          /\ Val(fitPopulation[j].fitness) >= 0
          /\ Val(fitPopulation[j].fitness) = Score(fitPopulation[j], data)

CarriedEliteScored ==
    /\ pc = "select" /\ i >= 1
    /\ Len(elite) >= 1 /\ Len(children) >= 1
    /\ \E j \in 1..Len(elite) : Truthy(basePopulation[j].fitness)
    /\ \E j \in 1..Len(basePopulation) : basePopulation[j].fitness = None

====
